---- MODULE Spec2Model ----
(***************************************************************************)
(* A model of awesome-python3-webapp (www/orm.py, www/coroweb.py,          *)
(* www/app.py).  The module holds five state machines over one set of      *)
(* variables, one per component:                                           *)
(*   SpecDb    select / execute against the connection pool (orm.py)       *)
(*   SpecMeta  ModelMetaclass.__new__ (orm.py)                             *)
(*   SpecWeb   RequestHandler.__call__ (coroweb.py)                        *)
(*   SpecPipe  the middleware chain of app.py                              *)
(*   SpecOrm   the Model CRUD methods over a table (orm.py)                *)
(* A component's specification leaves the other components' variables at   *)
(* their idle values.                                                      *)
(***************************************************************************)
EXTENDS Integers, Sequences, FiniteSets, TLC

VARIABLES
    \* ---- SpecDb: one entry per concurrent caller of select / execute
    pc,          \* where the coroutine is suspended
    kind,        \* "select" | "execute"
    autocommit,  \* the autocommit argument of execute
    conn,        \* the pooled connection the call holds (0: none)
    ops,         \* the driver calls awaited so far, with their outcome
    exc,         \* the exception in flight ("none": none)
    affected,    \* cur.rowcount / the rows fetched
    result,      \* what the caller got once the call has ended
    free,        \* the pool's free connections
    \* ---- SpecMeta: the class statement last executed
    clsDef,      \* its name, attributes and what ModelMetaclass made of it
    instances,   \* how many instances of that class were constructed
    \* ---- SpecWeb: one request given to a RequestHandler
    webFn,       \* the signature of the wrapped function
    webReq,      \* the request
    webKw,       \* the argument mapping it assembled, once it has
    webOut,      \* what RequestHandler.__call__ did with it
    \* ---- SpecPipe: one request on its way through the middlewares
    pipePc,      \* the stage about to run
    pipeReq,     \* the request
    pipeUser,    \* request.__user__
    pipeTrace,   \* the stages entered so far
    pipeRet,     \* what the handler returned to response_factory
    pipeFn,      \* how the call of the business function ended
    pipeCase,    \* the branch of response_factory that answered
    pipeResp,    \* what leaves the pipeline
    \* ---- SpecOrm, SpecQuery: a model class, its table, one instance
    table,       \* the rows of the class's table, in storage order
    inst,        \* the instance the caller holds
    instKw,      \* the values the caller gave it before it was saved
    instState,   \* new | saved | modified | updated | removed
    gen,         \* how often a default producer has been invoked
    last,        \* the outcome of the last CRUD call
    \* ---- SpecArgs: a list of query arguments the caller keeps
    callerArgs,  \* the list as it is now
    callerPut    \* the elements the caller put in it

dbVars == <<pc, kind, autocommit, conn, ops, exc, affected, result, free>>
metaVars == <<clsDef, instances>>
webVars == <<webFn, webReq, webKw, webOut>>

pipeVars == <<pipePc, pipeReq, pipeUser, pipeTrace, pipeRet, pipeFn, pipeCase, pipeResp>>

ormVars == <<table, inst, instKw, instState, gen, last>>

listVars == <<callerArgs, callerPut>>

vars == <<dbVars, metaVars, webVars, pipeVars, ormVars, listVars>>

None == "None"

\* ------------------------------------------------------------------------
\* orm.py: select and execute over the pool
\* ------------------------------------------------------------------------

\* Concurrent callers (request tasks) in the model.
NumCalls == 2
\* create_pool(maxsize=...): the number of connections the pool hands out.
MaxSize == 1
\* The largest row count a statement reports.
MaxRows == 1

notDb == <<metaVars, webVars, pipeVars, ormVars, listVars>>

Calls == 1..NumCalls
Conns == 1..MaxSize

NoResult == [tag |-> "none"]
Returned(v) == [tag |-> "return", val |-> v]
Raised(e) == [tag |-> "raise", err |-> e]

\* The exception a failing driver call raises; each await raises its own.
ErrOf(op) == op \o "_err"

Op(name, ok) == [op |-> name, ok |-> ok]

DbInit ==
    /\ pc = [c \in Calls |-> "idle"]
    /\ kind = [c \in Calls |-> None]
    /\ autocommit = [c \in Calls |-> TRUE]
    /\ conn = [c \in Calls |-> 0]
    /\ ops = [c \in Calls |-> <<>>]
    /\ exc = [c \in Calls |-> "none"]
    /\ affected = [c \in Calls |-> 0]
    /\ result = [c \in Calls |-> NoResult]
    /\ free = Conns

\* A caller enters execute(sql, args, autocommit): log(sql), then the
\* coroutine awaits the pool.
CallExecute(c, ac) ==
    /\ pc[c] = "idle"
    /\ pc' = [pc EXCEPT ![c] = "acquire"]
    /\ kind' = [kind EXCEPT ![c] = "execute"]
    /\ autocommit' = [autocommit EXCEPT ![c] = ac]
    /\ ops' = [ops EXCEPT ![c] = <<>>]
    /\ exc' = [exc EXCEPT ![c] = "none"]
    /\ affected' = [affected EXCEPT ![c] = 0]
    /\ result' = [result EXCEPT ![c] = NoResult]
    /\ UNCHANGED <<conn, free>>
    /\ UNCHANGED notDb

\* A caller enters select(sql, args, size).
CallSelect(c) ==
    /\ pc[c] = "idle"
    /\ pc' = [pc EXCEPT ![c] = "acquire"]
    /\ kind' = [kind EXCEPT ![c] = "select"]
    /\ autocommit' = [autocommit EXCEPT ![c] = TRUE]
    /\ ops' = [ops EXCEPT ![c] = <<>>]
    /\ exc' = [exc EXCEPT ![c] = "none"]
    /\ affected' = [affected EXCEPT ![c] = 0]
    /\ result' = [result EXCEPT ![c] = NoResult]
    /\ UNCHANGED <<conn, free>>
    /\ UNCHANGED notDb

\* Where the body of "async with __pool.get() as conn" starts.
AfterAcquire(k, ac) ==
    IF k = "select" THEN "stmt" ELSE IF ac THEN "stmt" ELSE "begin"

\* __pool.get().__aenter__: waits until a connection is free, then leases it.
Acquire(c) ==
    /\ pc[c] = "acquire"
    /\ \E k \in free :
        /\ free' = free \ {k}
        /\ conn' = [conn EXCEPT ![c] = k]
    /\ pc' = [pc EXCEPT ![c] = AfterAcquire(kind[c], autocommit[c])]
    /\ UNCHANGED <<kind, autocommit, ops, exc, affected, result>>
    /\ UNCHANGED notDb

\* The pool fails to hand out a connection: the error leaves the call, which
\* never held one.
AcquireFail(c) ==
    /\ pc[c] = "acquire"
    /\ pc' = [pc EXCEPT ![c] = "done"]
    /\ result' = [result EXCEPT ![c] = Raised(ErrOf("acquire"))]
    /\ UNCHANGED <<kind, autocommit, conn, ops, exc, affected, free>>
    /\ UNCHANGED notDb

\* "await conn.begin()" stands before the try block: its error leaves the
\* "async with" body without a rollback.
BeginNext(ok) == IF ok THEN "stmt" ELSE "release"

Begin(c, ok) ==
    /\ pc[c] = "begin"
    /\ ops' = [ops EXCEPT ![c] = Append(@, Op("begin", ok))]
    /\ exc' = [exc EXCEPT ![c] = IF ok THEN @ ELSE ErrOf("begin")]
    /\ pc' = [pc EXCEPT ![c] = BeginNext(ok)]
    /\ UNCHANGED <<kind, autocommit, conn, affected, result, free>>
    /\ UNCHANGED notDb

\* An except block that re-raises without rolling back.
StmtNextNoRollback(k, ac, ok) ==
    IF k = "select" THEN (IF ok THEN "fetch" ELSE "release")
    ELSE IF ok THEN (IF ac THEN "release" ELSE "commit")
    ELSE "release"

\* After "await cur.execute(...)": select goes on to fetch; execute commits
\* when not autocommit; an error of execute enters "except BaseException",
\* which rolls back only when not autocommit.
StmtNext(k, ac, ok) ==
    IF k = "select" THEN (IF ok THEN "fetch" ELSE "release")
    ELSE IF ok THEN (IF ac THEN "release" ELSE "commit")
    ELSE (IF ac THEN "release" ELSE "rollback")

Stmt(c, ok, n) ==
    /\ pc[c] = "stmt"
    /\ ops' = [ops EXCEPT ![c] = Append(@, Op("stmt", ok))]
    /\ exc' = [exc EXCEPT ![c] = IF ok THEN @ ELSE ErrOf("stmt")]
    /\ affected' = [affected EXCEPT ![c] =
                        IF ok /\ kind[c] = "execute" THEN n ELSE @]
    /\ pc' = [pc EXCEPT ![c] = StmtNext(kind[c], autocommit[c], ok)]
    /\ UNCHANGED <<kind, autocommit, conn, result, free>>
    /\ UNCHANGED notDb

\* select: "await cur.fetchmany(size)" / "await cur.fetchall()".
Fetch(c, ok, n) ==
    /\ pc[c] = "fetch"
    /\ ops' = [ops EXCEPT ![c] = Append(@, Op("fetch", ok))]
    /\ exc' = [exc EXCEPT ![c] = IF ok THEN @ ELSE ErrOf("fetch")]
    /\ affected' = [affected EXCEPT ![c] = IF ok THEN n ELSE @]
    /\ pc' = [pc EXCEPT ![c] = "release"]
    /\ UNCHANGED <<kind, autocommit, conn, result, free>>
    /\ UNCHANGED notDb

\* "await conn.commit()" is inside the try block: its error is handled like
\* the statement's.
CommitNext(ok) == IF ok THEN "release" ELSE "rollback"

Commit(c, ok) ==
    /\ pc[c] = "commit"
    /\ ops' = [ops EXCEPT ![c] = Append(@, Op("commit", ok))]
    /\ exc' = [exc EXCEPT ![c] = IF ok THEN @ ELSE ErrOf("commit")]
    /\ pc' = [pc EXCEPT ![c] = CommitNext(ok)]
    /\ UNCHANGED <<kind, autocommit, conn, affected, result, free>>
    /\ UNCHANGED notDb

\* "await conn.rollback()" in the except block, then the bare "raise".  An
\* error of rollback itself leaves the except block in place of the
\* exception being handled.
RollbackExc(old, ok) == IF ok THEN old ELSE ErrOf("rollback")

Rollback(c, ok) ==
    /\ pc[c] = "rollback"
    /\ ops' = [ops EXCEPT ![c] = Append(@, Op("rollback", ok))]
    /\ exc' = [exc EXCEPT ![c] = RollbackExc(@, ok)]
    /\ pc' = [pc EXCEPT ![c] = "release"]
    /\ UNCHANGED <<kind, autocommit, conn, affected, result, free>>
    /\ UNCHANGED notDb

\* A release that happens only when the body returned normally.
ReleaseConnOnSuccess(fr, k, e) == IF e = "none" THEN fr \cup {k} ELSE fr

\* The connections free after __pool.get().__aexit__ of a call holding k,
\* e being the exception leaving the body ("none": none).
ReleaseConn(fr, k, e) == fr \cup {k}

\* Leaving "async with __pool.get()": the connection goes back to the pool
\* whether the body returned or raised; then the caller gets the value or
\* the exception.
Release(c) ==
    /\ pc[c] = "release"
    /\ free' = ReleaseConn(free, conn[c], exc[c])
    /\ conn' = [conn EXCEPT ![c] = 0]
    /\ result' = [result EXCEPT ![c] =
                    IF exc[c] = "none" THEN Returned(affected[c])
                    ELSE Raised(exc[c])]
    /\ pc' = [pc EXCEPT ![c] = "done"]
    /\ UNCHANGED <<kind, autocommit, ops, exc, affected>>
    /\ UNCHANGED notDb

\* The caller has consumed the outcome; the task may call again.
Finish(c) ==
    /\ pc[c] = "done"
    /\ pc' = [pc EXCEPT ![c] = "idle"]
    /\ UNCHANGED <<kind, autocommit, conn, ops, exc, affected, result, free>>
    /\ UNCHANGED notDb

NextDb ==
    \E c \in Calls :
        \/ \E ac \in BOOLEAN : CallExecute(c, ac)
        \/ CallSelect(c)
        \/ Acquire(c)
        \/ AcquireFail(c)
        \/ \E ok \in BOOLEAN : Begin(c, ok)
        \/ \E ok \in BOOLEAN, n \in 0..MaxRows : Stmt(c, ok, n)
        \/ \E ok \in BOOLEAN, n \in 0..MaxRows : Fetch(c, ok, n)
        \/ \E ok \in BOOLEAN : Commit(c, ok)
        \/ \E ok \in BOOLEAN : Rollback(c, ok)
        \/ Release(c)
        \/ Finish(c)


\* ------------------------------------------------------------------------
\* orm.py: Field and ModelMetaclass.__new__
\* ------------------------------------------------------------------------

\* The largest number of attributes in a class body.
MaxAttrs == 3

\* Attribute names of class bodies, as many as a class body may hold.
AttrNamePool == <<"id", "name", "email", "admin", "passwd", "image">>
AttrNames == {AttrNamePool[i] : i \in 1..MaxAttrs}
ClassNames == {"Model", "User"}

\* Field.__init__(name, column_type, primary_key, default).
Field(name, column_type, primary_key, default) ==
    [isField |-> TRUE, name |-> name, column_type |-> column_type,
     primary_key |-> primary_key, default |-> default]
\* A class attribute that is no Field (a method, a constant).
Plain == [isField |-> FALSE]
\* Field.default: nothing, a value, or a zero-argument producer of values.
NoDefault == [how |-> "none"]
Constant(v) == [how |-> "value", v |-> v]
Callable == [how |-> "callable"]
\* StringField(name=None, primary_key=False, default=None, ddl='varchar(100)')
StringField(name, primary_key, default) ==
    Field(name, "varchar(100)", primary_key, default)
\* IntegerField(name=None, primary_key=False, default=0)
IntegerField(name, primary_key, default) ==
    Field(name, "bigint", primary_key, default)

\* The column name a Field may declare for attribute k.
ColumnOf(k) == "c_" \o k

\* The values an attribute k of a class body may have.
AttrValues(k) ==
    {Plain} \cup
    {StringField(n, p, NoDefault) : n \in {None, ColumnOf(k)}, p \in BOOLEAN}

Keys(attrs) == {attrs[i].k : i \in 1..Len(attrs)}

\* Class bodies: attrs in definition order, no name twice (a dict).
RECURSIVE AttrSeqs(_)
AttrSeqs(n) ==
    IF n = 0 THEN {<<>>}
    ELSE LET shorter == AttrSeqs(n - 1)
         IN shorter \cup
            UNION {UNION {{Append(s, [k |-> k, v |-> v]) : v \in AttrValues(k)} :
                            k \in AttrNames \ Keys(s)} :
                    s \in {t \in shorter : Len(t) = n - 1}}
ClassBodies == AttrSeqs(MaxAttrs)

\* create_args_string(num): num placeholders.
create_args_string(num) == [i \in 1..num |-> "?"]

\* A loop body that lets a later primary key replace an earlier one.
ScanAttrLastKeyWins(acc, a) ==
    IF acc.err # None \/ ~a.v.isField THEN acc
    ELSE IF a.v.primary_key
         THEN [acc EXCEPT !.mappings = Append(@, a.k), !.primaryKey = a.k]
         ELSE [acc EXCEPT !.mappings = Append(@, a.k),
                          !.fields = Append(@, a.k)]

\* One turn of "for k, v in attrs.items()": a Field is recorded in the
\* mappings and is either the primary key (an error when one was found
\* already) or one more of the fields.
ScanAttr(acc, a) ==
    IF acc.err # None \/ ~a.v.isField THEN acc
    ELSE IF a.v.primary_key
         THEN IF acc.primaryKey # None
              THEN [acc EXCEPT !.err = "Duplicate primary key for field: " \o a.k]
              ELSE [acc EXCEPT !.mappings = Append(@, a.k), !.primaryKey = a.k]
         ELSE [acc EXCEPT !.mappings = Append(@, a.k),
                          !.fields = Append(@, a.k)]

RECURSIVE ScanAttrs(_, _, _)
ScanAttrs(attrs, i, acc) ==
    IF i > Len(attrs) THEN acc
    ELSE ScanAttrs(attrs, i + 1, ScanAttr(acc, attrs[i]))

ValueOf(attrs, k) == attrs[CHOOSE i \in 1..Len(attrs) : attrs[i].k = k].v

\* mappings.get(f).name or f
UpdateColumn(attrs, f) ==
    IF ValueOf(attrs, f).name # None THEN ValueOf(attrs, f).name ELSE f

\* ModelMetaclass.__new__(cls, name, bases, attrs), with tbl the body's
\* __table__ (None: not given).  The class named Model is passed through;
\* any other class gets its metadata and canned statements, or the
\* definition raises.  A statement is kept as its parts: the columns in the
\* order of the text, and its placeholders.
ModelMetaclassNew(name, tbl, attrs) ==
    IF name = "Model" THEN [ok |-> TRUE, model |-> FALSE]
    ELSE
    LET tableName == IF tbl # None THEN tbl ELSE name
        scan == ScanAttrs(attrs, 1,
                    [mappings |-> <<>>, fields |-> <<>>,
                     primaryKey |-> None, err |-> None])
        fields == scan.fields
        primaryKey == scan.primaryKey
    IN  IF scan.err # None THEN [ok |-> FALSE, error |-> scan.err]
        ELSE IF primaryKey = None
        THEN [ok |-> FALSE, error |-> "Primary key not found."]
        ELSE [ok |-> TRUE, model |-> TRUE,
              mappings |-> [k \in {scan.mappings[i] : i \in 1..Len(scan.mappings)}
                                |-> ValueOf(attrs, k)],
              table |-> tableName,
              primary_key |-> primaryKey,
              fields |-> fields,
              select |-> [verb |-> "select", table |-> tableName,
                          cols |-> <<primaryKey>> \o fields],
              insert |-> [verb |-> "insert", table |-> tableName,
                          cols |-> Append(fields, primaryKey),
                          values |-> create_args_string(Len(fields) + 1)],
              update |-> [verb |-> "update", table |-> tableName,
                          set |-> [i \in 1..Len(fields) |->
                                        UpdateColumn(attrs, fields[i])],
                          where |-> primaryKey],
              delete |-> [verb |-> "delete", table |-> tableName,
                          where |-> primaryKey]]

\* No class statement has been executed yet.
NoClass == [name |-> None, tbl |-> None, attrs |-> <<>>,
            cls |-> [ok |-> FALSE, error |-> None]]

MetaInit ==
    /\ clsDef = NoClass
    /\ instances = 0

notMeta == <<dbVars, webVars, pipeVars, ormVars, listVars>>

\* The class statement with metaclass ModelMetaclass is executed (once, when
\* its module is imported).
DefineClass(name, tbl, attrs) ==
    /\ clsDef' = [name |-> name, tbl |-> tbl, attrs |-> attrs,
                  cls |-> ModelMetaclassNew(name, tbl, attrs)]
    /\ instances' = 0
    /\ UNCHANGED notMeta

\* Model.__init__(**kw) of the class last defined: there is a class to
\* call only when its definition did not raise.
NewInstance ==
    /\ clsDef.cls.ok
    /\ instances < 1
    /\ instances' = instances + 1
    /\ UNCHANGED clsDef
    /\ UNCHANGED notMeta

NextMeta ==
    \/ /\ clsDef = NoClass
       /\ \E name \in ClassNames, tbl \in {None, "users"}, attrs \in ClassBodies :
            DefineClass(name, tbl, attrs)
    \/ NewInstance

\* ------------------------------------------------------------------------
\* coroweb.py: RequestHandler
\* ------------------------------------------------------------------------

\* The most key=value pairs in a query string.
MaxQuery == 2

\* inspect.Parameter: name, kind, and whether it has a default.
Param(name, k, hasDefault) == [name |-> name, kind |-> k, default |-> hasDefault]
POSITIONAL_OR_KEYWORD == "POSITIONAL_OR_KEYWORD"
KEYWORD_ONLY == "KEYWORD_ONLY"
VAR_POSITIONAL == "VAR_POSITIONAL"
VAR_KEYWORD == "VAR_KEYWORD"

\* The signatures of the functions routes are registered for.
Signatures == {
    \* (request)
    <<Param("request", POSITIONAL_OR_KEYWORD, FALSE)>>,
    \* (id)
    <<Param("id", POSITIONAL_OR_KEYWORD, FALSE)>>,
    \* (id, *, name, request)
    <<Param("id", POSITIONAL_OR_KEYWORD, FALSE), Param("name", KEYWORD_ONLY, FALSE),
      Param("request", KEYWORD_ONLY, FALSE)>>,
    \* (*, name, id, page='1')
    <<Param("name", KEYWORD_ONLY, FALSE), Param("id", KEYWORD_ONLY, FALSE),
      Param("page", KEYWORD_ONLY, TRUE)>>,
    \* (request, *, page='1')
    <<Param("request", POSITIONAL_OR_KEYWORD, FALSE), Param("page", KEYWORD_ONLY, TRUE)>>,
    \* (**kw)
    <<Param("kw", VAR_KEYWORD, FALSE)>>,
    \* (id, request, *, name, **kw)
    <<Param("id", POSITIONAL_OR_KEYWORD, FALSE),
      Param("request", POSITIONAL_OR_KEYWORD, FALSE),
      Param("name", KEYWORD_ONLY, FALSE), Param("kw", VAR_KEYWORD, FALSE)>>,
    \* (request, id)
    <<Param("request", POSITIONAL_OR_KEYWORD, FALSE),
      Param("id", POSITIONAL_OR_KEYWORD, FALSE)>>,
    \* (request, *args, name='x')
    <<Param("request", POSITIONAL_OR_KEYWORD, FALSE),
      Param("args", VAR_POSITIONAL, FALSE), Param("name", KEYWORD_ONLY, TRUE)>> }

Names(params) == [i \in 1..Len(params) |-> params[i].name]

\* get_required_kw_args(fn): the keyword-only parameters without a default.
get_required_kw_args(fn) ==
    LET Required(p) == p.kind = KEYWORD_ONLY /\ ~p.default
    IN Names(SelectSeq(fn, Required))

\* get_named_kw_args(fn): the keyword-only parameters.
get_named_kw_args(fn) ==
    LET Named(p) == p.kind = KEYWORD_ONLY
    IN Names(SelectSeq(fn, Named))

\* has_named_kw_args(fn)
has_named_kw_args(fn) == \E i \in 1..Len(fn) : fn[i].kind = KEYWORD_ONLY

\* has_var_kw_arg(fn)
has_var_kw_arg(fn) == \E i \in 1..Len(fn) : fn[i].kind = VAR_KEYWORD

\* has_request_arg(fn): whether a parameter is named request; an error when a
\* positional parameter follows it.
has_request_arg(fn) ==
    LET found == \E i \in 1..Len(fn) : fn[i].name = "request"
        bad == \E i, j \in 1..Len(fn) :
                    /\ fn[i].name = "request" /\ i < j
                    /\ fn[j].kind \notin {VAR_POSITIONAL, KEYWORD_ONLY, VAR_KEYWORD}
    IN [found |-> found, error |-> bad]

\* The functions add_route can wrap: RequestHandler.__init__ raises for the
\* others.
Registered == {fn \in Signatures : ~has_request_arg(fn).error}

\* ---- requests
ParamKeys == {"name", "extra", "id", "request"}
ParamValues == {"x", "y"}
PathValues == {"42"}
TheRequest == "<request>"

\* Mappings (dict): functions over a set of keys.
Dicts(keys, values) == UNION {[d -> values] : d \in SUBSET keys}
EmptyDict == <<>>
Has(d, k) == k \in DOMAIN d

\* request.content_type, lower-cased: nothing, or a media type with
\* parameters after it (startswith sees the media type).
ContentTypes == {"", "application/json", "application/x-www-form-urlencoded",
                 "multipart/form-data", "text/plain"}

\* What the body decodes to: a mapping, something that is no mapping, or
\* nothing (decoding raises).
Bodies ==
    {[shape |-> "dict", d |-> d] : d \in Dicts(ParamKeys, ParamValues)}
        \cup {[shape |-> "list"], [shape |-> "invalid"]}

RECURSIVE QueryStrings(_)
QueryStrings(n) ==
    IF n = 0 THEN {<<>>}
    ELSE LET shorter == QueryStrings(n - 1)
         IN shorter \cup
            {Append(q, <<k, v>>) : q \in {t \in shorter : Len(t) = n - 1},
                                   k \in {"name", "id"}, v \in ParamValues}

Request(method, ct, body, qs, mi) ==
    [method |-> method, content_type |-> ct, body |-> body,
     query_string |-> qs, match_info |-> mi]

\* request.post() always gives a mapping; request.json() gives any value.
BodiesOf(ct) ==
    IF ct = "application/json" THEN Bodies
    ELSE {b \in Bodies : b.shape # "list"}
PostRequests ==
    UNION {{Request("POST", ct, b, <<>>, mi) :
                b \in BodiesOf(ct), mi \in Dicts({"id", "name"}, PathValues)} :
            ct \in ContentTypes}
GetRequests ==
    {Request(m, "", [shape |-> "invalid"], qs, mi) :
        m \in {"GET", "PUT"}, qs \in QueryStrings(MaxQuery),
        mi \in Dicts({"id", "name"}, PathValues)}
Requests == PostRequests \cup GetRequests

\* ---- RequestHandler.__call__
NoKw == [some |-> FALSE]
Kw(d) == [some |-> TRUE, d |-> d]

HTTPBadRequest(text, arg) ==
    [tag |-> "response", status |-> 400, text |-> text, arg |-> arg]
Going(kw) == [tag |-> "going", kw |-> kw]

\* parse_qs(qs, True) followed by kw[k] = v[0]: each key with the first of
\* its values.
RECURSIVE FirstValues(_, _)
FirstValues(qs, i) ==
    IF i = 0 THEN EmptyDict
    ELSE LET rest == FirstValues(qs, i - 1)
             k == qs[i][1]
         IN IF Has(rest, k) THEN rest ELSE rest @@ (k :> qs[i][2])

\* Lines 117-154: the parameters of the body (POST) or the query string
\* (GET), for a function with keyword parameters.
ParseParams(fn, request) ==
    IF ~(has_var_kw_arg(fn) \/ has_named_kw_args(fn)) THEN Going(NoKw)
    ELSE IF request.method = "POST" THEN
        IF request.content_type = ""
        THEN HTTPBadRequest("Missing Content-Type.", None)
        ELSE IF request.content_type = "application/json" THEN
            IF request.body.shape = "invalid" THEN [tag |-> "raise", err |-> "json"]
            ELSE IF request.body.shape # "dict"
            THEN HTTPBadRequest("JSON body must be object.", None)
            ELSE Going(Kw(request.body.d))
        ELSE IF request.content_type \in
                    {"application/x-www-form-urlencoded", "multipart/form-data"} THEN
            IF request.body.shape = "dict" THEN Going(Kw(request.body.d))
            ELSE [tag |-> "raise", err |-> "post"]
        ELSE HTTPBadRequest("Unsupported Content-Type: %s", request.content_type)
    ELSE IF request.method = "GET" THEN
        IF request.query_string # <<>>
        THEN Going(Kw(FirstValues(request.query_string, Len(request.query_string))))
        ELSE Going(NoKw)
    ELSE Going(NoKw)

\* A filter that keeps every parsed parameter.
KeepAll(fn, kw) == kw

\* Lines 164-171: with named keyword parameters and no **kw, only the named
\* parameters are kept.
FilterNamed(fn, kw) ==
    IF ~has_var_kw_arg(fn) /\ has_named_kw_args(fn)
    THEN LET named == get_named_kw_args(fn)
             keep == {named[i] : i \in 1..Len(named)} \cap DOMAIN kw
         IN [k \in keep |-> kw[k]]
    ELSE kw

\* A merge in which a parsed parameter keeps its value.
MergeParamWins(kw, match_info) == kw @@ match_info

\* Lines 173-177: kw[k] = v for every path variable.
MergeMatchInfo(kw, match_info) == match_info @@ kw

\* Lines 156-180: the argument mapping.
AssembleKw(fn, request, kw) ==
    LET merged == IF ~kw.some THEN request.match_info
                  ELSE MergeMatchInfo(FilterNamed(fn, kw.d), request.match_info)
    IN IF has_request_arg(fn).found
       THEN ("request" :> TheRequest) @@ merged
       ELSE merged

\* A check that looks at the first required parameter only.
MissingFirstOnly(required, kw) ==
    IF required # <<>> /\ ~Has(kw, required[1]) THEN {1} ELSE {}

\* Lines 182-186: the required parameters absent from kw, by position.
Missing(required, kw) == {i \in 1..Len(required) : ~Has(kw, required[i])}

Min(S) == CHOOSE x \in S : \A y \in S : x <= y

\* RequestHandler.__call__(request), up to the call of the function: what
\* it answers or calls (out) and the argument mapping it assembled (kw).
RequestHandlerCall(fn, request) ==
    LET parsed == ParseParams(fn, request)
    IN IF parsed.tag # "going" THEN [out |-> parsed, kw |-> NoKw]
       ELSE LET kw == AssembleKw(fn, request, parsed.kw)
                required == get_required_kw_args(fn)
                missing == Missing(required, kw)
            IN [kw |-> Kw(kw),
                out |-> IF missing # {}
                        THEN HTTPBadRequest("Missing argument: %s",
                                            required[Min(missing)])
                        ELSE [tag |-> "call", kw |-> kw]]

Idle == [tag |-> "idle"]

WebInit ==
    /\ webFn = <<>>
    /\ webReq = Request("", "", [shape |-> "invalid"], <<>>, EmptyDict)
    /\ webKw = NoKw
    /\ webOut = Idle

notWeb == <<dbVars, metaVars, pipeVars, ormVars, listVars>>

\* A request arrives at the RequestHandler of a registered function.
HandleRequest(fn, request) ==
    /\ webFn' = fn
    /\ webReq' = request
    /\ webKw' = RequestHandlerCall(fn, request).kw
    /\ webOut' = RequestHandlerCall(fn, request).out
    /\ UNCHANGED notWeb

NextWeb ==
    /\ webOut = Idle
    /\ \E fn \in Registered, request \in Requests : HandleRequest(fn, request)


\* ------------------------------------------------------------------------
\* app.py: the middlewares
\* ------------------------------------------------------------------------

\* Text is a sequence of characters.
StartsWith(s, prefix) ==
    Len(s) >= Len(prefix) /\ SubSeq(s, 1, Len(prefix)) = prefix
\* s[n:]
From(s, n) == SubSeq(s, n + 1, Len(s))

ManagePrefix == <<"/", "m", "a", "n", "a", "g", "e", "/">>
SigninPath == <<"/", "s", "i", "g", "n", "i", "n">>
RedirectPrefix == <<"r", "e", "d", "i", "r", "e", "c", "t", ":">>

\* request.path
Paths ==
    { <<"/">>,
      <<"/", "m", "a", "n", "a", "g", "e">>,
      <<"/", "m", "a", "n", "a", "g", "e", "/">>,
      <<"/", "m", "a", "n", "a", "g", "e", "/", "b">>,
      <<"/", "a", "p", "i", "/", "m", "a", "n", "a", "g", "e", "/">> }

\* request.cookies.get(COOKIE_NAME): absent, empty, or some text.
Cookies == {None, "", "session"}

\* What cookie2user may resolve a cookie to: no user, or a user who is or is
\* not an administrator.
User(admin) == [isUser |-> TRUE, admin |-> admin]
NoUser == [isUser |-> FALSE]
cookie2user == {NoUser, User(FALSE), User(TRUE)}

PipeRequest(method, path, cookie, ct, bodyOk) ==
    [method |-> method, path |-> path, cookie |-> cookie,
     content_type |-> ct, bodyOk |-> bodyOk]
PipeRequests ==
    {PipeRequest("GET", path, cookie, "", TRUE) : path \in Paths, cookie \in Cookies}
    \cup {PipeRequest("POST", path, cookie, ct, ok) :
            path \in Paths, cookie \in Cookies,
            ct \in {"application/json", "application/x-www-form-urlencoded",
                    "text/plain"},
            ok \in BOOLEAN}

\* ---- the values a handler may return
PyNone == [t |-> "NoneType"]
PyInt(n) == [t |-> "int", n |-> n]
PyBool(b) == [t |-> "bool", n |-> IF b THEN 1 ELSE 0]
PyFloat(n) == [t |-> "float", n |-> n]
PyStr(s) == [t |-> "str", s |-> s]
PyBytes(s) == [t |-> "bytes", s |-> s]
PyTuple(items) == [t |-> "tuple", items |-> items]
PyList(items) == [t |-> "list", items |-> items]
PyDict(d) == [t |-> "dict", d |-> d]
PyResponse(resp) == [t |-> "response", resp |-> resp]

\* isinstance(r, int): bool is a subclass of int.
IsInt(r) == r.t \in {"int", "bool"}

\* aiohttp responses.
Body(how, of) == [kind |-> how, of |-> of]
NoBody == Body("none", PyNone)
WebResponse(status, body, content_type) ==
    [cls |-> "Response", status |-> status, body |-> body,
     content_type |-> content_type, location |-> <<>>]
HTTPFound(location) ==
    [cls |-> "HTTPFound", status |-> 302, body |-> NoBody,
     content_type |-> "", location |-> location]
BadRequestResponse ==
    [cls |-> "HTTPBadRequest", status |-> 400, body |-> NoBody,
     content_type |-> "", location |-> <<>>]

StatusCodes == {-1, 99, 100, 404, 599, 600}
Texts ==
    { <<"r", "e", "d", "i", "r", "e", "c", "t", ":", "/", "s", "i", "g", "n", "i", "n">>,
      <<"r", "e", "d", "i", "r", "e", "c", "t", ":">>,
      <<"r", "e", "d", "i", "r", "e", "c", "t">>,
      <<>>,
      <<"a", " ", "r", "e", "d", "i", "r", "e", "c", "t", ":", "/", "x">> }
Messages == {PyStr(<<"N", "o", "t", " ", "F", "o", "u", "n", "d">>), PyInt(0)}
TemplateName == PyStr(<<"t", ".", "h", "t", "m", "l">>)
Title == PyStr(<<"h", "i">>)
Mappings ==
    { <<>>,
      [title |-> Title],
      [__template__ |-> TemplateName],
      [__template__ |-> TemplateName, title |-> Title],
      [__template__ |-> PyNone],
      [__template__ |-> PyNone, title |-> Title] }
ReturnValues ==
    {PyResponse(BadRequestResponse), PyResponse(HTTPFound(SigninPath)),
     PyBytes(<<"i", "m", "g">>), PyNone, PyFloat(200), PyBool(TRUE), PyBool(FALSE)}
    \cup {PyStr(s) : s \in Texts}
    \cup {PyDict(d) : d \in Mappings}
    \cup {PyInt(n) : n \in StatusCodes}
    \cup {PyTuple(<<PyInt(n), m>>) : n \in StatusCodes, m \in Messages}
    \cup {PyList(<<PyInt(n), m>>) : n \in {404, 600}, m \in Messages}
    \cup {PyTuple(<<PyStr(<<"4", "0", "4">>), PyStr(<<"N", "o", "t", " ", "F", "o", "u", "n", "d">>)>>),
          PyTuple(<<PyBool(TRUE), PyStr(<<"N", "o", "t", " ", "F", "o", "u", "n", "d">>)>>),
          PyTuple(<<PyInt(404)>>),
          PyTuple(<<PyInt(404), PyStr(<<"N", "o", "t", " ", "F", "o", "u", "n", "d">>), PyNone>>)}

\* A range check that takes 600 for a status.
IsStatusInclusive(n) == n >= 100 /\ n <= 600

\* r >= 100 and r < 600
IsStatus(n) == n >= 100 /\ n < 600

\* r.get('__template__', None)
Template(d) == IF "__template__" \in DOMAIN d THEN d["__template__"] ELSE PyNone

\* response_factory, after "r = await handler(request)": the branch taken
\* and the response built.  str(), encode('utf-8'), json.dumps and the
\* template's render are kept as what they were applied to.
Coerce(r, user) ==
    IF r.t = "response" THEN [case |-> "response", resp |-> r.resp]
    ELSE IF r.t = "bytes"
    THEN [case |-> "bytes",
          resp |-> WebResponse(200, Body("bytes", r), "application/octet-stream")]
    ELSE IF r.t = "str" THEN
        IF StartsWith(r.s, RedirectPrefix)
        THEN [case |-> "redirect", resp |-> HTTPFound(From(r.s, 9))]
        ELSE [case |-> "html",
              resp |-> WebResponse(200, Body("utf8", r), "text/html;charset=utf-8")]
    ELSE IF r.t = "dict" THEN
        IF Template(r.d) = PyNone
        THEN [case |-> "json",
              resp |-> WebResponse(200, Body("json", r),
                                   "application/json;charset=utf-8")]
        ELSE [case |-> "template",
              resp |-> WebResponse(200,
                        Body("render",
                             [template |-> Template(r.d), user |-> user,
                              context |-> r]),
                        "text/html;charset=utf-8")]
    ELSE IF IsInt(r) /\ IsStatus(r.n)
    THEN [case |-> "status", resp |-> WebResponse(r.n, NoBody, "")]
    ELSE IF /\ r.t = "tuple" /\ Len(r.items) = 2
            /\ IsInt(r.items[1]) /\ IsStatus(r.items[1].n)
    THEN [case |-> "status_message",
          resp |-> WebResponse(r.items[1].n, Body("text", r.items[2]),
                               "text/plain")]
    ELSE [case |-> "plain",
          resp |-> WebResponse(200, Body("utf8_str", r), "text/plain;charset=utf-8")]

\* A check that lets every signed-in user into the administration.
NeedsSigninAnonymousOnly(path, user) ==
    StartsWith(path, ManagePrefix) /\ ~user.isUser

\* request.path.startswith('/manage/') and
\*     (request.__user__ is None or not request.__user__.admin)
NeedsSignin(path, user) ==
    StartsWith(path, ManagePrefix) /\ (~user.isUser \/ ~user.admin)

NoReturn == [t |-> "nothing"]
NotCalled == [how |-> "none"]

\* apis.APIError(error, data, message) and the errors functions raise.
APIError(error, data, message) == [error |-> error, data |-> data, message |-> message]
APIErrors ==
    {APIError(PyStr(<<"v", "a", "l", "u", "e">>), PyStr(<<"i", "d">>),
              PyStr(<<"b", "a", "d">>)),
     APIError(PyStr(<<"p", "e", "r", "m">>), PyStr(<<>>), PyStr(<<>>))}

\* A payload without the data of the error.
CatchAPIErrorNoData(e) == PyDict([error |-> e.error, message |-> e.message])

\* except APIError as e: return dict(error=e.error, data=e.data, message=e.message)
CatchAPIError(e) ==
    PyDict([error |-> e.error, data |-> e.data, message |-> e.message])
NoResponse == [cls |-> "nothing"]
Propagates(e) == [cls |-> "exception", err |-> e]

PipeInit ==
    /\ pipePc = "idle"
    /\ pipeReq = PipeRequest("", <<>>, None, "", TRUE)
    /\ pipeUser = NoUser
    /\ pipeTrace = <<>>
    /\ pipeRet = NoReturn
    /\ pipeFn = NotCalled
    /\ pipeCase = "none"
    /\ pipeResp = NoResponse

notPipe == <<dbVars, metaVars, webVars, ormVars, listVars>>

\* aiohttp hands a request to the outermost middleware.
Arrive(request) ==
    /\ pipePc = "idle"
    /\ pipeReq' = request
    /\ pipePc' = "logger"
    /\ UNCHANGED <<pipeFn, pipeUser, pipeTrace, pipeRet, pipeCase, pipeResp>>
    /\ UNCHANGED notPipe

\* A logger that hands the request to data_factory.
LoggerSkipsAuth ==
    /\ pipePc = "logger"
    /\ pipeTrace' = Append(pipeTrace, "logger")
    /\ pipePc' = "data"
    /\ UNCHANGED <<pipeFn, pipeReq, pipeUser, pipeRet, pipeCase, pipeResp>>
    /\ UNCHANGED notPipe

\* logger_factory: logs, then awaits the next handler.
Logger ==
    /\ pipePc = "logger"
    /\ pipeTrace' = Append(pipeTrace, "logger")
    /\ pipePc' = "auth"
    /\ UNCHANGED <<pipeFn, pipeReq, pipeUser, pipeRet, pipeCase, pipeResp>>
    /\ UNCHANGED notPipe

\* auth_factory: binds the user the cookie resolves to (resolved: what
\* cookie2user gives), then redirects or awaits the next handler.
Auth(resolved) ==
    /\ pipePc = "auth"
    /\ pipeTrace' = Append(pipeTrace, "auth")
    /\ LET user == IF pipeReq.cookie \notin {None, ""} THEN resolved ELSE NoUser
       IN /\ pipeUser' = user
          /\ IF NeedsSignin(pipeReq.path, user)
             THEN /\ pipeResp' = HTTPFound(SigninPath)
                  /\ pipePc' = "out"
             ELSE /\ pipeResp' = pipeResp
                  /\ pipePc' = "data"
    /\ UNCHANGED <<pipeFn, pipeReq, pipeRet, pipeCase>>
    /\ UNCHANGED notPipe

\* data_factory: a JSON or form POST body is decoded (which may raise)
\* before the next handler is awaited.
ParseData ==
    /\ pipePc = "data"
    /\ pipeTrace' = Append(pipeTrace, "data")
    /\ IF /\ pipeReq.method = "POST"
          /\ pipeReq.content_type \in
                {"application/json", "application/x-www-form-urlencoded"}
          /\ ~pipeReq.bodyOk
       THEN /\ pipeResp' = Propagates("body")
            /\ pipePc' = "out"
       ELSE /\ pipeResp' = pipeResp
            /\ pipePc' = "response"
    /\ UNCHANGED <<pipeFn, pipeReq, pipeUser, pipeRet, pipeCase>>
    /\ UNCHANGED notPipe

\* response_factory: logs, then awaits the handler.
ResponseEnter ==
    /\ pipePc = "response"
    /\ pipeTrace' = Append(pipeTrace, "response")
    /\ pipePc' = "handler"
    /\ UNCHANGED <<pipeFn, pipeReq, pipeUser, pipeRet, pipeCase, pipeResp>>
    /\ UNCHANGED notPipe

\* The RequestHandler answers 400 without calling its function.
HandlerRejects ==
    /\ pipePc = "handler"
    /\ pipeTrace' = Append(pipeTrace, "handler")
    /\ pipeRet' = PyResponse(BadRequestResponse)
    /\ pipePc' = "coerce"
    /\ UNCHANGED <<pipeFn, pipeReq, pipeUser, pipeCase, pipeResp>>
    /\ UNCHANGED notPipe

\* The RequestHandler and its function return r.
HandlerReturns(r) ==
    /\ pipePc = "handler"
    /\ pipeTrace' = Append(pipeTrace, "handler")
    /\ pipeFn' = [how |-> "returned", r |-> r]
    /\ pipeRet' = r
    /\ pipePc' = "coerce"
    /\ UNCHANGED <<pipeReq, pipeUser, pipeCase, pipeResp>>
    /\ UNCHANGED notPipe

\* The function raises an APIError, which the RequestHandler catches and
\* returns as a dict.
HandlerRaisesAPIError(e) ==
    /\ pipePc = "handler"
    /\ pipeTrace' = Append(pipeTrace, "handler")
    /\ pipeFn' = [how |-> "api_error", e |-> e]
    /\ pipeRet' = CatchAPIError(e)
    /\ pipePc' = "coerce"
    /\ UNCHANGED <<pipeReq, pipeUser, pipeCase, pipeResp>>
    /\ UNCHANGED notPipe

\* The function raises another exception, which the RequestHandler lets
\* through.
HandlerRaises ==
    /\ pipePc = "handler"
    /\ pipeTrace' = Append(pipeTrace, "handler")
    /\ pipeFn' = [how |-> "raised"]
    /\ pipeResp' = Propagates("handler")
    /\ pipePc' = "out"
    /\ UNCHANGED <<pipeReq, pipeUser, pipeRet, pipeCase>>
    /\ UNCHANGED notPipe

\* response_factory turns r into the response.
ResponseCoerce ==
    /\ pipePc = "coerce"
    /\ pipeCase' = Coerce(pipeRet, pipeUser).case
    /\ pipeResp' = Coerce(pipeRet, pipeUser).resp
    /\ pipeTrace' = Append(pipeTrace, "coerce")
    /\ pipePc' = "out"
    /\ UNCHANGED <<pipeFn, pipeReq, pipeUser, pipeRet>>
    /\ UNCHANGED notPipe

NextPipe ==
    \/ \E request \in PipeRequests : Arrive(request)
    \/ Logger
    \/ \E resolved \in cookie2user : Auth(resolved)
    \/ ParseData
    \/ ResponseEnter
    \/ HandlerRejects
    \/ \E r \in ReturnValues : HandlerReturns(r)
    \/ \E e \in APIErrors : HandlerRaisesAPIError(e)
    \/ HandlerRaises
    \/ ResponseCoerce

\* ------------------------------------------------------------------------
\* orm.py: Model and its table
\* ------------------------------------------------------------------------

\* The most values a default producer hands out.
MaxGen == 1
\* The most rows with a caller-chosen key that the table of SpecQuery holds.
MaxKeys == 3

\* class User(Model): id with a producer default, name without a default,
\* score with the default "0".
UserBody ==
    <<[k |-> "id", v |-> StringField(None, TRUE, Callable)],
      [k |-> "name", v |-> StringField(None, FALSE, NoDefault)],
      [k |-> "score", v |-> IntegerField(None, FALSE, Constant("0"))]>>
\* The same class with name = StringField(name='c_name').
UserBodyNamed ==
    <<[k |-> "id", v |-> StringField(None, TRUE, Callable)],
      [k |-> "name", v |-> StringField(ColumnOf("name"), FALSE, NoDefault)],
      [k |-> "score", v |-> IntegerField(None, FALSE, Constant("0"))]>>
ModelBodies == {UserBody, UserBodyNamed}

cls == clsDef.cls

\* The values a default producer returns, one after the other.
GenPool == <<"g1", "g2", "g3", "g4">>
\* The keys callers choose.
KeyPool == <<"k1", "k2", "k3", "k4", "k5">>
KeyRank(k) ==
    IF \E i \in DOMAIN KeyPool : KeyPool[i] = k
    THEN CHOOSE i \in DOMAIN KeyPool : KeyPool[i] = k
    ELSE Len(KeyPool) + (CHOOSE i \in DOMAIN GenPool : GenPool[i] = k)

\* ---- the database: the table has the columns the class's INSERT and
\* SELECT name, and its key column is unique and not null.
TableColumns == {cls.primary_key} \cup {cls.fields[i] : i \in 1..Len(cls.fields)}
Elems(seq) == {seq[i] : i \in 1..Len(seq)}
IndexOf(seq, x) == CHOOSE i \in 1..Len(seq) : seq[i] = x

DbError(e) == [ok |-> FALSE, err |-> e]

\* cur.execute of the canned INSERT with args.
DbInsert(rows, sql, args) ==
    IF Len(args) # Len(sql.values) THEN DbError("TypeError")
    ELSE IF ~(Elems(sql.cols) \subseteq TableColumns) \/ Len(sql.cols) # Len(sql.values)
    THEN DbError("OperationalError")
    ELSE LET row == [c \in TableColumns |->
                        IF c \in Elems(sql.cols) THEN args[IndexOf(sql.cols, c)]
                        ELSE None]
         IN IF row[cls.primary_key] = None
               \/ \E i \in 1..Len(rows) : rows[i][cls.primary_key] = row[cls.primary_key]
            THEN DbError("IntegrityError")
            ELSE [ok |-> TRUE, rows |-> Append(rows, row), rowcount |-> 1]

\* cur.execute of the canned UPDATE with args.
DbUpdate(rows, sql, args) ==
    IF Len(args) # Len(sql.set) + 1 THEN DbError("TypeError")
    ELSE IF ~(Elems(sql.set) \cup {sql.where} \subseteq TableColumns)
    THEN DbError("OperationalError")
    ELSE LET hit == {i \in 1..Len(rows) : rows[i][sql.where] = args[Len(args)]}
         IN [ok |-> TRUE,
             rows |-> [i \in 1..Len(rows) |->
                        IF i \in hit
                        THEN [c \in TableColumns |->
                                IF c \in Elems(sql.set)
                                THEN args[IndexOf(sql.set, c)] ELSE rows[i][c]]
                        ELSE rows[i]],
             rowcount |-> Cardinality(hit)]

\* cur.execute of the canned DELETE with args.
DbDelete(rows, sql, args) ==
    IF Len(args) # 1 THEN DbError("TypeError")
    ELSE IF sql.where \notin TableColumns THEN DbError("OperationalError")
    ELSE LET Keep(row) == row[sql.where] # args[1]
         IN [ok |-> TRUE, rows |-> SelectSeq(rows, Keep),
             rowcount |-> Len(rows) - Len(SelectSeq(rows, Keep))]

\* execute(sql, args) with autocommit: the statement's row count, or the
\* driver's error.
Execute(rows, sql, args) ==
    CASE sql.verb = "insert" -> DbInsert(rows, sql, args)
      [] sql.verb = "update" -> DbUpdate(rows, sql, args)
      [] sql.verb = "delete" -> DbDelete(rows, sql, args)

\* ---- instances
NoInstance == [some |-> FALSE]
Instance(d) == [some |-> TRUE, d |-> d]

\* getattr(self, key, None)
getValue(d, key) == IF key \in DOMAIN d THEN d[key] ELSE None

\* The next value of a default producer.
Produce(n) == GenPool[n + 1]

\* A getValueOrDefault that does not keep what it resolved.
getValueOrDefaultNoStore(d, n, key) ==
    LET value == getValue(d, key)
        default == cls.mappings[key].default
    IN IF value # None \/ default.how = "none"
       THEN [value |-> value, d |-> d, n |-> n]
       ELSE [value |-> IF default.how = "callable" THEN Produce(n) ELSE default.v,
             d |-> d,
             n |-> IF default.how = "callable" THEN n + 1 ELSE n]

\* getValueOrDefault(key) on an instance with attributes d, n producer
\* calls having been made: the value, the attributes and the calls after.
getValueOrDefault(d, n, key) ==
    LET value == getValue(d, key)
        default == cls.mappings[key].default
    IN IF value # None \/ default.how = "none"
       THEN [value |-> value, d |-> d, n |-> n]
       ELSE LET v == IF default.how = "callable" THEN Produce(n) ELSE default.v
            IN [value |-> v,
                d |-> (key :> v) @@ d,
                n |-> IF default.how = "callable" THEN n + 1 ELSE n]

\* list(map(self.getValueOrDefault, keys)): the values in order, with the
\* attributes and producer calls after the last.
RECURSIVE MapValueOrDefault(_, _, _, _)
MapValueOrDefault(d, n, keys, i) ==
    IF i = 0 THEN [args |-> <<>>, d |-> d, n |-> n]
    ELSE LET before == MapValueOrDefault(d, n, keys, i - 1)
             this == getValueOrDefault(before.d, before.n, keys[i])
         IN [args |-> Append(before.args, this.value), d |-> this.d, n |-> this.n]

\* Arguments of save that put the key first.
SaveArgsKeyFirst(d, n) ==
    MapValueOrDefault(d, n, <<cls.primary_key>> \o cls.fields, Len(cls.fields) + 1)

\* save(): the arguments of the INSERT, fields first and the key last.
SaveArgs(d, n) ==
    MapValueOrDefault(d, n, Append(cls.fields, cls.primary_key), Len(cls.fields) + 1)

\* update(): list(map(self.getValue, self.__fields__)), then the key.
UpdateArgs(d) ==
    [i \in 1..(Len(cls.fields) + 1) |->
        IF i <= Len(cls.fields) THEN getValue(d, cls.fields[i])
        ELSE getValue(d, cls.primary_key)]

\* select('<__select__> where `<key>`=?', [pk], 1): fetchmany(1) of the
\* rows whose key is pk.
FindRows(rows, pk) ==
    LET Hit(row) == row[cls.primary_key] = pk
    IN SelectSeq(rows, Hit)

\* The columns of __select__ of a row, as the DictCursor gives them.
Project(row, sql) == [c \in Elems(sql.cols) |-> row[c]]

NoCall == [op |-> "none"]

OrmInit ==
    /\ table = <<>>
    /\ inst = NoInstance
    /\ instKw = <<>>
    /\ instState = "none"
    /\ gen = 0
    /\ last = NoCall
    /\ callerArgs = <<>>
    /\ callerPut = <<>>

notOrm == <<dbVars, webVars, pipeVars, listVars>>

Defined == clsDef.cls.ok /\ clsDef.name # "Model"

\* The keyword arguments instances are constructed with in SpecOrm.
OrmKws ==
    {kw \in UNION {[ks -> {"k1", "a", "5"}] : ks \in SUBSET {"id", "name", "score"}} :
        /\ "id" \in DOMAIN kw => kw["id"] = "k1"
        /\ "name" \in DOMAIN kw => kw["name"] = "a"
        /\ "score" \in DOMAIN kw => kw["score"] = "5" /\ "name" \in DOMAIN kw}

\* Model.__init__(**kw)
New(kw) ==
    /\ Defined
    /\ inst' = Instance(kw)
    /\ instKw' = kw
    /\ instState' = "new"
    /\ last' = NoCall
    /\ UNCHANGED <<table, gen, metaVars>>
    /\ UNCHANGED notOrm

\* save(): the defaults are resolved into the instance, then the INSERT is
\* executed; the driver's error propagates, a row count other than 1 is
\* only logged.
Save ==
    /\ inst.some
    /\ SaveArgs(inst.d, gen).n <= MaxGen
    /\ LET a == SaveArgs(inst.d, gen)
           r == Execute(table, cls.insert, a.args)
       IN /\ inst' = Instance(a.d)
          /\ gen' = a.n
          /\ table' = IF r.ok THEN r.rows ELSE table
          /\ last' = IF r.ok THEN [op |-> "save", ok |-> TRUE, rows |-> r.rowcount]
                     ELSE [op |-> "save", ok |-> FALSE, err |-> r.err]
          /\ instState' = IF r.ok /\ instState = "new" THEN "saved" ELSE instState
    /\ UNCHANGED <<instKw, metaVars>>
    /\ UNCHANGED notOrm

\* __setattr__(key, value) of a field that is not the key.
SetAttr(key, value) ==
    /\ inst.some
    /\ key \in Elems(cls.fields)
    /\ getValue(inst.d, key) # value
    /\ inst' = Instance((key :> value) @@ inst.d)
    /\ instState' = IF instState \in {"saved", "updated"} THEN "modified"
                    ELSE instState
    /\ instKw' = IF instState = "new" THEN (key :> value) @@ instKw ELSE instKw
    /\ last' = NoCall
    /\ UNCHANGED <<table, gen, metaVars>>
    /\ UNCHANGED notOrm

\* update(): the UPDATE is executed with the current values.
Update ==
    /\ inst.some
    /\ LET r == Execute(table, cls.update, UpdateArgs(inst.d))
       IN /\ table' = IF r.ok THEN r.rows ELSE table
          /\ last' = IF r.ok THEN [op |-> "update", ok |-> TRUE, rows |-> r.rowcount]
                     ELSE [op |-> "update", ok |-> FALSE, err |-> r.err]
    /\ instState' = IF instState = "modified" THEN "updated" ELSE instState
    /\ UNCHANGED <<inst, instKw, gen, metaVars>>
    /\ UNCHANGED notOrm

\* remove(): the DELETE is executed with the key.
Remove ==
    /\ inst.some
    /\ LET r == Execute(table, cls.delete, <<getValue(inst.d, cls.primary_key)>>)
       IN /\ table' = IF r.ok THEN r.rows ELSE table
          /\ last' = IF r.ok THEN [op |-> "remove", ok |-> TRUE, rows |-> r.rowcount]
                     ELSE [op |-> "remove", ok |-> FALSE, err |-> r.err]
          /\ instState' = IF r.ok /\ r.rowcount > 0 THEN "removed" ELSE instState
    /\ UNCHANGED <<inst, instKw, gen, metaVars>>
    /\ UNCHANGED notOrm

\* find(pk): the instance made of the first row found, or None.
Find(pk) ==
    /\ Defined
    /\ LET rs == FindRows(table, pk)
       IN last' = [op |-> "find", ok |-> TRUE, pk |-> pk,
                   found |-> IF Len(rs) = 0 THEN NoInstance
                             ELSE Instance(Project(rs[1], cls.select))]
    /\ UNCHANGED <<table, inst, instKw, instState, gen, metaVars>>
    /\ UNCHANGED notOrm

\* The keys a caller may look up: the one its instance holds, or another.
LookupKeys ==
    {"k1"} \cup
    (IF inst.some /\ getValue(inst.d, cls.primary_key) # None
     THEN {getValue(inst.d, cls.primary_key)} ELSE {})

NextOrm ==
    \/ /\ clsDef = NoClass
       /\ \E attrs \in ModelBodies : DefineClass("User", None, attrs)
    \/ \E kw \in OrmKws : New(kw)
    \/ Save
    \/ \E key \in {"name"}, value \in {"b"} : SetAttr(key, value)
    \/ Update
    \/ Remove
    \/ /\ Defined
       /\ \E pk \in LookupKeys : Find(pk)

\* ---- findAll

\* A where clause `<col>`=? and the absence of one.
WhereEq(col) == PyStr(col \o "=?")
WhereColumn(where) == IF where = WhereEq("name") THEN "name" ELSE "id"
\* if where: / if orderBy: None and the empty string are false.
Truthy(x) == x # PyNone /\ x # PyStr("")

\* The statement findAll puts together: the select list, then the clauses.
Select(sql, where, orderBy, limit) ==
    [verb |-> "select", table |-> sql.table, cols |-> sql.cols,
     where |-> where, orderBy |-> orderBy, limit |-> limit]

\* args.extend(limit), the count before the offset.
ExtendReversed(args, limit) == args \o <<limit.items[2], limit.items[1]>>

\* args.extend(limit)
Extend(args, limit) == args \o limit.items

\* findAll(where, args, orderBy=, limit=) up to the call of select: the
\* statement and its arguments, or the ValueError raised before it; args
\* is the list the arguments are collected in.
FindAllQuery(where, args, orderBy, limit) ==
    LET given == IF args = PyNone THEN <<>> ELSE args.items
        sql(lim) == Select(cls.select,
                           IF Truthy(where) THEN where ELSE PyNone,
                           IF Truthy(orderBy) THEN orderBy ELSE PyNone,
                           lim)
    IN CASE limit = PyNone ->
              [raised |-> FALSE, sql |-> sql("none"), args |-> given]
         [] limit # PyNone /\ IsInt(limit) ->
              [raised |-> FALSE, sql |-> sql("?"), args |-> Append(given, limit)]
         [] limit # PyNone /\ ~IsInt(limit) /\ limit.t = "tuple" /\ Len(limit.items) = 2 ->
              [raised |-> FALSE, sql |-> sql("?, ?"), args |-> Extend(given, limit)]
         [] OTHER ->
              [raised |-> TRUE, err |-> "ValueError", args |-> given]

\* The rows in the order of their keys.
RowsBefore(rows, row, desc) ==
    {x \in Elems(rows) :
        IF desc THEN KeyRank(x[cls.primary_key]) > KeyRank(row[cls.primary_key])
        ELSE KeyRank(x[cls.primary_key]) < KeyRank(row[cls.primary_key])}
OrderRows(rows, desc) ==
    [i \in 1..Len(rows) |->
        CHOOSE row \in Elems(rows) : Cardinality(RowsBefore(rows, row, desc)) = i - 1]

Placeholders(sql) ==
    (IF sql.where = PyNone THEN 0 ELSE 1)
    + (CASE sql.limit = "none" -> 0 [] sql.limit = "?" -> 1 [] sql.limit = "?, ?" -> 2)

\* cur.execute of a SELECT with args and fetchall: the rows, or the
\* driver's error. The driver binds the arguments to the placeholders in
\* order; a limit that is not a number from 0 up is a statement the server
\* refuses.
DbSelect(rows, sql, args) ==
    IF Len(args) # Placeholders(sql) THEN DbError("TypeError")
    ELSE
    LET nw == IF sql.where = PyNone THEN 0 ELSE 1
        Hit(row) == sql.where = PyNone
                    \/ (args[1].t = "str" /\ row[WhereColumn(sql.where)] = args[1].s)
        hits == SelectSeq(rows, Hit)
        ordered == CASE sql.orderBy = PyNone -> hits
                     [] sql.orderBy = PyStr("id") -> OrderRows(hits, FALSE)
                     [] sql.orderBy = PyStr("id desc") -> OrderRows(hits, TRUE)
        lim == [i \in 1..(Len(args) - nw) |-> args[nw + i]]
        n == Len(ordered)
    IN IF \E i \in 1..Len(lim) : ~IsInt(lim[i]) \/ lim[i].n < 0
       THEN DbError("ProgrammingError")
       ELSE [ok |-> TRUE,
             rows |-> CASE sql.limit = "none" -> ordered
                        [] sql.limit = "?" ->
                             SubSeq(ordered, 1, IF lim[1].n < n THEN lim[1].n ELSE n)
                        [] sql.limit = "?, ?" ->
                             SubSeq(ordered, lim[1].n + 1,
                                    IF lim[1].n + lim[2].n < n
                                    THEN lim[1].n + lim[2].n ELSE n)]

\* findAll(where, args, orderBy=orderBy, limit=limit): the instances made
\* of the rows selected.
FindAll(where, args, orderBy, limit) ==
    /\ Defined
    /\ LET q == FindAllQuery(where, args, orderBy, limit)
           r == IF q.raised THEN DbError(q.err) ELSE DbSelect(table, q.sql, q.args)
       IN last' = [op |-> "findAll", where |-> where, args |-> args,
                   orderBy |-> orderBy, limit |-> limit,
                   queried |-> ~q.raised,
                   ok |-> r.ok,
                   err |-> IF r.ok THEN None ELSE r.err,
                   found |-> IF r.ok
                             THEN [i \in 1..Len(r.rows) |->
                                     Instance(Project(r.rows[i], cls.select))]
                             ELSE <<>>]
    /\ UNCHANGED <<table, inst, instKw, instState, gen, metaVars>>
    /\ UNCHANGED notOrm

\* The instances stored in SpecQuery: keys the caller chooses, names that
\* alternate.
QueryKws ==
    {[id |-> KeyPool[i], name |-> IF i % 2 = 1 THEN "a" ELSE "b"] : i \in 1..MaxKeys}

Wheres == {PyNone, WhereEq("name")}
ArgLists == {PyNone, PyList(<<>>), PyList(<<PyStr("a")>>)}
OrderBys == {PyNone, PyStr("id desc")}
Limits ==
    {PyNone, PyBool(TRUE), PyStr("1")}
    \cup {PyInt(n) : n \in {-1, 0, 1, 2}}
    \cup {PyTuple(<<PyInt(0), PyInt(1)>>), PyTuple(<<PyInt(1), PyInt(1)>>),
          PyTuple(<<PyInt(1), PyInt(2)>>)}
    \cup {PyTuple(<<PyInt(1)>>), PyTuple(<<PyInt(0), PyInt(1), PyInt(2)>>),
          PyTuple(<<PyStr("x"), PyInt(1)>>), PyList(<<PyInt(0), PyInt(1)>>)}

NextQuery ==
    \/ /\ clsDef = NoClass
       /\ \E attrs \in ModelBodies : DefineClass("User", None, attrs)
    \/ \E kw \in QueryKws : New(kw)
    \/ Save
    \* findAll changes nothing but what the caller gets back, so the calls
    \* are made from the states in which no result of one is held.
    \/ /\ Defined
       /\ last.op # "findAll"
       /\ \E where \in Wheres, args \in ArgLists, orderBy \in OrderBys, limit \in Limits :
            FindAll(where, args, orderBy, limit)

\* ---- reading the fields of an instance

\* The most values a default producer hands out to readers in SpecDefaults.
MaxProduced == 2

\* self.getValue(key)
GetValue(key) ==
    /\ inst.some
    /\ last' = [op |-> "get", key |-> key, value |-> getValue(inst.d, key)]
    /\ UNCHANGED <<table, inst, instKw, instState, gen, metaVars>>
    /\ UNCHANGED notOrm

\* self.getValueOrDefault(key)
ReadValueOrDefault(key) ==
    /\ inst.some
    /\ gen < MaxProduced
    /\ LET r == getValueOrDefault(inst.d, gen, key)
       IN /\ inst' = Instance(r.d)
          /\ gen' = r.n
          /\ last' = [op |-> "read", key |-> key, value |-> r.value,
                      invoked |-> r.n # gen]
    /\ UNCHANGED <<table, instKw, instState, metaVars>>
    /\ UNCHANGED notOrm

\* The keyword arguments instances are constructed with in SpecDefaults:
\* a key and a score that are left out, given, or given as None.
DefaultKws ==
    {kw \in UNION {[ks -> {"k1", "5", None}] : ks \in SUBSET {"id", "score"}} :
        /\ "id" \in DOMAIN kw => kw["id"] \in {"k1", None}
        /\ "score" \in DOMAIN kw => kw["score"] \in {"5", None}}

NextDefaults ==
    \/ /\ clsDef = NoClass
       /\ \E attrs \in ModelBodies : DefineClass("User", None, attrs)
    \/ \E kw \in DefaultKws : New(kw)
    \/ /\ Defined
       /\ \E key \in DOMAIN cls.mappings : GetValue(key)
    \/ /\ Defined
       /\ \E key \in DOMAIN cls.mappings : ReadValueOrDefault(key)
    \/ Save

\* ---- findAll with a list the caller keeps

\* The longest the caller's list is let grow.
MaxArgs == 3

\* The caller makes a list of arguments: args = [...]
NewArgs(items) ==
    /\ callerArgs' = items
    /\ callerPut' = items
    /\ UNCHANGED <<dbVars, metaVars, webVars, pipeVars, ormVars>>

\* findAll(where, args, orderBy=orderBy, limit=limit) with the caller's
\* list as args: the limit is appended to that very list.
FindAllHeld(where, orderBy, limit) ==
    /\ Defined
    /\ Len(callerArgs) < MaxArgs
    /\ LET q == FindAllQuery(where, PyList(callerArgs), orderBy, limit)
           r == IF q.raised THEN DbError(q.err) ELSE DbSelect(table, q.sql, q.args)
       IN /\ callerArgs' = q.args
          /\ last' = [op |-> "findAll", where |-> where, args |-> PyList(callerArgs),
                      orderBy |-> orderBy, limit |-> limit,
                      queried |-> ~q.raised,
                      sql |-> IF q.raised THEN Select(cls.select, PyNone, PyNone, "none")
                              ELSE q.sql,
                      sent |-> q.args,
                      ok |-> r.ok,
                      err |-> IF r.ok THEN None ELSE r.err,
                      found |-> IF r.ok
                                THEN [i \in 1..Len(r.rows) |->
                                        Instance(Project(r.rows[i], cls.select))]
                                ELSE <<>>]
    /\ UNCHANGED <<table, inst, instKw, instState, gen, callerPut>>
    /\ UNCHANGED <<dbVars, metaVars, webVars, pipeVars>>

\* The lists callers make, the limits they pass with them, and the one
\* instance stored in SpecArgs.
HeldLists == {<<>>, <<PyStr("a")>>}
HeldLimits == {PyNone, PyInt(1), PyTuple(<<PyInt(0), PyInt(1)>>), PyStr("1")}
ArgsKws == {[id |-> KeyPool[1], name |-> "a"]}

NextArgs ==
    \/ /\ clsDef = NoClass
       /\ \E attrs \in ModelBodies : DefineClass("User", None, attrs)
    \/ \E kw \in ArgsKws : New(kw)
    \/ Save
    \/ \E items \in HeldLists : NewArgs(items)
    \/ \E where \in Wheres, limit \in HeldLimits : FindAllHeld(where, PyNone, limit)


\* ------------------------------------------------------------------------
\* Specifications
\* ------------------------------------------------------------------------

Init ==
    /\ DbInit
    /\ MetaInit
    /\ WebInit
    /\ PipeInit
    /\ OrmInit

SpecDb == Init /\ [][NextDb]_vars
SpecMeta == Init /\ [][NextMeta]_vars
SpecWeb == Init /\ [][NextWeb]_vars
SpecPipe == Init /\ [][NextPipe]_vars
SpecOrm == Init /\ [][NextOrm]_vars
SpecQuery == Init /\ [][NextQuery]_vars
SpecDefaults == Init /\ [][NextDefaults]_vars
SpecArgs == Init /\ [][NextArgs]_vars

\* ------------------------------------------------------------------------
\* Properties of select / execute
\* ------------------------------------------------------------------------

Ended(c) == result[c].tag # "none"
OpNames(c) == [i \in 1..Len(ops[c]) |-> ops[c][i].op]
Issued(c, name) == \E i \in 1..Len(ops[c]) : ops[c][i].op = name
Succeeded(c, name) ==
    \E i \in 1..Len(ops[c]) : ops[c][i].op = name /\ ops[c][i].ok
\* The first driver call of the try block (statement, commit) that raised.
TryFailures(c) ==
    {i \in 1..Len(ops[c]) : ops[c][i].op \in {"stmt", "commit"} /\ ~ops[c][i].ok}
FirstTryError(c) ==
    LET i == CHOOSE j \in TryFailures(c) : \A k \in TryFailures(c) : j <= k
    IN ErrOf(ops[c][i].op)

\* What C1 says of every ended execute call besides the exception raised:
\* begin precedes the statement, success is begin-statement-commit with the
\* row count returned, an error in the try block is followed by a rollback
\* and no commit succeeds, and autocommit calls issue no transaction call.
ExecuteProtocol(c) ==
    /\ autocommit[c] =>
        /\ ~Issued(c, "begin") /\ ~Issued(c, "commit") /\ ~Issued(c, "rollback")
    /\ ~autocommit[c] =>
        /\ Issued(c, "stmt") => ops[c][1] = Op("begin", TRUE)
        /\ result[c].tag = "return" =>
            /\ ops[c] = <<Op("begin", TRUE), Op("stmt", TRUE), Op("commit", TRUE)>>
            /\ result[c].val = affected[c]
        /\ TryFailures(c) # {} =>
            /\ Issued(c, "rollback")
            /\ ~Succeeded(c, "commit")
            /\ result[c].tag = "raise"

\* C1 as stated: for execute(sql, args, autocommit=False) a transaction is
\* begun before the statement; success means exactly one commit, no rollback
\* and the row count returned; any exception of the statement or the commit
\* is followed by a rollback, no commit takes effect and the same exception
\* reaches the caller; with autocommit=True no begin, commit or rollback is
\* issued.
C1_AsStated ==
    \A c \in Calls :
        (Ended(c) /\ kind[c] = "execute") =>
            /\ ExecuteProtocol(c)
            /\ (~autocommit[c] /\ TryFailures(c) # {}) =>
                    result[c] = Raised(FirstTryError(c))

\* C1 amended: as C1, except that the exception reaching the caller is the
\* original one only when the rollback succeeds; when conn.rollback() itself
\* raises, the rollback's exception reaches the caller instead; and when
\* conn.begin() raises, the statement is not run, nothing is committed or
\* rolled back and begin's exception reaches the caller.
C1_ExecuteTransaction ==
    \A c \in Calls :
        (Ended(c) /\ kind[c] = "execute") =>
            /\ ExecuteProtocol(c)
            /\ (~autocommit[c] /\ TryFailures(c) # {}) =>
                    result[c] = IF Succeeded(c, "rollback")
                                THEN Raised(FirstTryError(c))
                                ELSE Raised(ErrOf("rollback"))
            /\ (~autocommit[c] /\ Issued(c, "begin") /\ ~Succeeded(c, "begin")) =>
                    /\ ops[c] = <<Op("begin", FALSE)>>
                    /\ result[c] = Raised(ErrOf("begin"))

\* A non-autocommit execute whose commit raised, was rolled back and
\* re-raised the commit's exception, next to one that committed.
C1_Witness ==
    \E c, d \in Calls :
        /\ Ended(c) /\ kind[c] = "execute" /\ ~autocommit[c]
        /\ OpNames(c) = <<"begin", "stmt", "commit", "rollback">>
        /\ result[c] = Raised(ErrOf("commit"))
        /\ Ended(d) /\ kind[d] = "execute" /\ ~autocommit[d]
        /\ result[d] = Returned(1)

InFlight == {c \in Calls : pc[c] \notin {"idle", "done"}}
Holding ==
    {c \in Calls :
        pc[c] \in {"begin", "stmt", "fetch", "commit", "rollback", "release"}}
Leased == Cardinality(Conns \ free)

\* C2 as stated: in any interleaving the number of leased connections equals
\* the number of select / execute calls still in flight.
C2_AsStated == Leased = Cardinality(InFlight)

\* C2 amended: the number of leased connections equals the number of calls
\* in flight that have been handed their connection (a call still waiting
\* for the pool holds none); each such call holds exactly one connection
\* that no other call holds; every exit path gives it back, so no ended
\* call holds one and nothing is leased when no call is in flight.
C2_LeaseScoped ==
    /\ Leased = Cardinality(Holding)
    /\ \A c \in Calls : (conn[c] # 0) <=> (c \in Holding)
    /\ \A c, d \in Calls : (c # d /\ conn[c] # 0) => conn[c] # conn[d]
    /\ free = Conns \ {conn[c] : c \in Calls}
    /\ InFlight = {} => Leased = 0

\* One call has ended by raising out of a failed rollback while another
\* call holds the connection it gave back.
C2_Witness ==
    \E c, d \in Calls :
        /\ pc[c] = "done" /\ result[c] = Raised(ErrOf("rollback"))
        /\ pc[d] = "stmt" /\ conn[d] # 0
        /\ Leased = 1

\* ------------------------------------------------------------------------
\* Properties of ModelMetaclass.__new__
\* ------------------------------------------------------------------------

\* The declared fields of a class body, and those marked primary key.
DeclaredFields(attrs) == {i \in 1..Len(attrs) : attrs[i].v.isField}
DeclaredKeys(attrs) ==
    {i \in DeclaredFields(attrs) : attrs[i].v.primary_key}

\* C3: a model class other than Model is created only when exactly one
\* declared field is marked primary key; with none or with several the
\* class statement raises, and no instance of the class is ever
\* constructed; on success the recorded primary key is that field and the
\* field list holds every other declared field, in order, and not the key.
C3_ExactlyOnePrimaryKey ==
    (clsDef.name \notin {None, "Model"}) =>
        LET attrs == clsDef.attrs
            keys == DeclaredKeys(attrs)
            made == clsDef.cls
        IN  /\ made.ok <=> Cardinality(keys) = 1
            /\ Cardinality(keys) = 0 =>
                    ~made.ok /\ made.error = "Primary key not found."
            /\ Cardinality(keys) >= 2 => ~made.ok /\ made.error # None
            /\ ~made.ok => instances = 0
            /\ made.ok =>
                /\ \A i \in keys : made.primary_key = attrs[i].k
                /\ {made.fields[j] : j \in 1..Len(made.fields)} =
                        {attrs[i].k : i \in DeclaredFields(attrs) \ keys}
                /\ Len(made.fields) = Cardinality(DeclaredFields(attrs) \ keys)
                /\ \A j \in 1..Len(made.fields) : made.fields[j] # made.primary_key
                /\ DOMAIN made.mappings =
                        {attrs[i].k : i \in DeclaredFields(attrs)}

\* A class with a field before and a field after its one primary key was
\* defined and instantiated.
C3_Witness ==
    /\ clsDef.name = "User"
    /\ Len(clsDef.attrs) = 3
    /\ DeclaredFields(clsDef.attrs) = {1, 2, 3}
    /\ DeclaredKeys(clsDef.attrs) = {2}
    /\ clsDef.cls.ok
    /\ clsDef.cls.fields = <<clsDef.attrs[1].k, clsDef.attrs[3].k>>
    /\ instances = 1

\* ------------------------------------------------------------------------
\* Properties of RequestHandler.__call__
\* ------------------------------------------------------------------------

KeywordOnly(fn) == {fn[i].name : i \in {j \in 1..Len(fn) : fn[j].kind = KEYWORD_ONLY}}
RequiredKeywordOnly(fn) ==
    {fn[i].name : i \in {j \in 1..Len(fn) : fn[j].kind = KEYWORD_ONLY /\ ~fn[j].default}}
CatchAll(fn) == \E i \in 1..Len(fn) : fn[i].kind = VAR_KEYWORD
DeclaresRequest(fn) == \E i \in 1..Len(fn) : fn[i].name = "request"

\* Whether the request's body or query string gave parameters, and which.
Produced(req) ==
    \/ /\ req.method = "POST"
       /\ req.content_type \in {"application/json",
                "application/x-www-form-urlencoded", "multipart/form-data"}
       /\ req.body.shape = "dict"
    \/ req.method = "GET" /\ req.query_string # <<>>
ParsedKeys(req) ==
    IF req.method = "POST" THEN DOMAIN req.body.d
    ELSE {req.query_string[i][1] : i \in 1..Len(req.query_string)}
ParsedValue(req, k) ==
    IF req.method = "POST" THEN req.body.d[k]
    ELSE LET at == {i \in 1..Len(req.query_string) : req.query_string[i][1] = k}
         IN req.query_string[Min(at)][2]

\* C4: for a function with keyword-only parameters and no **kw, when the
\* request gave body or query parameters, the mapping the function is called
\* with holds exactly the parsed parameters named by a keyword-only
\* parameter, every path variable (the path variable's value on a name
\* clash), and the request under "request" when the function declares it.
C4_WhitelistThenPath ==
    (/\ webOut.tag = "call"
     /\ KeywordOnly(webFn) # {} /\ ~CatchAll(webFn)
     /\ Produced(webReq)) =>
        LET mi == webReq.match_info
            kept == KeywordOnly(webFn) \cap ParsedKeys(webReq)
            req == IF DeclaresRequest(webFn) THEN {"request"} ELSE {}
        IN  /\ DOMAIN webOut.kw = kept \cup DOMAIN mi \cup req
            /\ \A k \in DOMAIN webOut.kw :
                webOut.kw[k] =
                    IF k \in req THEN TheRequest
                    ELSE IF k \in DOMAIN mi THEN mi[k]
                    ELSE ParsedValue(webReq, k)

\* (id, *, name, request), POST JSON {"name": "x", "extra": "y"}, path id=42:
\* called with {name: "x", id: "42", request: <request>}.
C4_Witness ==
    /\ Names(webFn) = <<"id", "name", "request">>
    /\ webReq.method = "POST" /\ webReq.content_type = "application/json"
    /\ webReq.body = [shape |-> "dict", d |-> [name |-> "x", extra |-> "y"]]
    /\ webReq.match_info = [id |-> "42"]
    /\ webOut = [tag |-> "call",
                 kw |-> [name |-> "x", id |-> "42", request |-> TheRequest]]

\* C5: when a keyword-only parameter without a default is absent from the
\* assembled argument mapping, the answer is a bad request naming an absent
\* one (the first in declaration order) and the function is not called; the
\* function is called, with that mapping, only when none is absent.
C5_RequiredPresent ==
    /\ webOut.tag = "call" => webKw.some
    /\ webKw.some =>
        LET absent == RequiredKeywordOnly(webFn) \ DOMAIN webKw.d
        IN  /\ absent # {} =>
                /\ webOut.tag = "response" /\ webOut.status = 400
                /\ webOut.text = "Missing argument: %s"
                /\ webOut.arg \in absent
                /\ \A i, j \in 1..Len(webFn) :
                        (webFn[j].name = webOut.arg /\ i < j) =>
                            webFn[i].name \notin absent
            /\ webOut.tag = "call" => absent = {} /\ webOut.kw = webKw.d

\* (*, name, id, page='1') got name but no id, from a query string and no
\* path variable: bad request naming id, no call.
C5_Witness ==
    /\ Names(webFn) = <<"name", "id", "page">>
    /\ webReq.method = "GET"
    /\ webKw.some /\ DOMAIN webKw.d = {"name"}
    /\ webOut = HTTPBadRequest("Missing argument: %s", "id")

\* ------------------------------------------------------------------------
\* Properties of the middlewares
\* ------------------------------------------------------------------------

Coerced == pipePc = "out" /\ pipeCase # "none"
InRange(n) == 100 <= n /\ n <= 599
IsMapping(r) == r.t = "dict"
HasTemplateKey(r) == "__template__" \in DOMAIN r.d
IsRedirectText(r) ==
    /\ r.t = "str" /\ Len(r.s) >= 9
    /\ \A i \in 1..9 : r.s[i] = RedirectPrefix[i]
IsStatusPair(r, kinds) ==
    /\ r.t \in kinds /\ Len(r.items) = 2
    /\ r.items[1].t \in {"int", "bool"} /\ InRange(r.items[1].n)

\* The case of the ordered list that is first to match r, a mapping being
\* rendered when "rendered" holds of it and a status pair being any of "kinds".
FirstCase(r, rendered(_), kinds) ==
    IF r.t = "response" THEN "response"
    ELSE IF r.t = "bytes" THEN "bytes"
    ELSE IF IsRedirectText(r) THEN "redirect"
    ELSE IF r.t = "str" THEN "html"
    ELSE IF IsMapping(r) /\ ~rendered(r) THEN "json"
    ELSE IF IsMapping(r) THEN "template"
    ELSE IF r.t \in {"int", "bool"} /\ InRange(r.n) THEN "status"
    ELSE IF r.t \in {"tuple", "list"} /\ IsStatusPair(r, kinds) THEN "status_message"
    ELSE "plain"

\* What the response of each case is made of.
ResponseOfCase(case, r, user, resp) ==
    CASE case = "response" -> resp = r.resp
      [] case = "bytes" ->
            /\ resp.cls = "Response" /\ resp.status = 200
            /\ resp.content_type = "application/octet-stream"
            /\ resp.body = Body("bytes", r)
      [] case = "redirect" ->
            /\ resp.cls = "HTTPFound" /\ resp.status = 302
            /\ r.s = RedirectPrefix \o resp.location
      [] case = "html" ->
            /\ resp.cls = "Response" /\ resp.status = 200
            /\ resp.content_type = "text/html;charset=utf-8"
            /\ resp.body = Body("utf8", r)
      [] case = "json" ->
            /\ resp.cls = "Response" /\ resp.status = 200
            /\ resp.content_type = "application/json;charset=utf-8"
            /\ resp.body = Body("json", r)
      [] case = "template" ->
            /\ resp.cls = "Response" /\ resp.status = 200
            /\ resp.content_type = "text/html;charset=utf-8"
            /\ resp.body.kind = "render"
            /\ resp.body.of.template = r.d["__template__"]
            /\ resp.body.of.context = r
            /\ resp.body.of.user = user
      [] case = "status" ->
            /\ resp.cls = "Response" /\ resp.status = r.n /\ resp.body = NoBody
      [] case = "status_message" ->
            /\ resp.cls = "Response" /\ resp.status = r.items[1].n
            /\ resp.body = Body("text", r.items[2])
      [] case = "plain" ->
            /\ resp.cls = "Response" /\ resp.status = 200
            /\ resp.content_type = "text/plain;charset=utf-8"
            /\ resp.body = Body("utf8_str", r)

TemplateKeyPresent(r) == HasTemplateKey(r)
TemplateGiven(r) == HasTemplateKey(r) /\ r.d["__template__"] # PyNone

\* C6 as stated: every return value is answered by the first matching case
\* of: response object unchanged; bytes; text starting with redirect:; other
\* text; mapping without a template key as JSON; mapping with a template key
\* rendered; integer in [100,600); two-element sequence (status, message);
\* anything else as plain text.
C6_AsStated ==
    Coerced =>
        /\ pipeCase = FirstCase(pipeRet, TemplateKeyPresent, {"tuple", "list"})
        /\ ResponseOfCase(pipeCase, pipeRet, pipeUser, pipeResp)

\* C6 amended: as C6, except that a mapping is rendered only when its
\* template key holds a value other than None (a mapping whose template key
\* is absent or None is answered as JSON), and that the (status, message)
\* case takes a two-element tuple only (a list is answered as plain text).
C6_CoercionOrdered ==
    Coerced =>
        /\ pipeCase = FirstCase(pipeRet, TemplateGiven, {"tuple"})
        /\ ResponseOfCase(pipeCase, pipeRet, pipeUser, pipeResp)

\* {"__template__": "t.html", "title": "hi"} from an anonymous request was
\* rendered with the null user.
C6_Witness ==
    /\ Coerced
    /\ pipeRet = PyDict([__template__ |-> TemplateName, title |-> Title])
    /\ pipeCase = "template"
    /\ pipeResp.body.of.user = NoUser
    /\ pipeResp.content_type = "text/html;charset=utf-8"

UnderManage(path) ==
    Len(path) >= Len(ManagePrefix) /\ \A i \in 1..Len(ManagePrefix) : path[i] = ManagePrefix[i]
AuthRan == \E i \in 1..Len(pipeTrace) : pipeTrace[i] = "auth"

\* C7: a request under /manage/ with no resolved user (no cookie, or a
\* cookie that resolves to nobody) or a user who is no administrator is
\* answered by auth with a redirect to /signin, and no later stage is
\* entered for it.
C7_AdminRedirect ==
    AuthRan =>
        /\ pipeReq.cookie \in {None, ""} => pipeUser = NoUser
        /\ (UnderManage(pipeReq.path) /\ (pipeUser = NoUser \/ ~pipeUser.admin)) =>
            /\ pipePc = "out"
            /\ pipeResp = HTTPFound(SigninPath)
            /\ pipeTrace = <<"logger", "auth">>
            /\ pipeRet = NoReturn

\* A signed-in user who is no administrator asked for /manage/b and was sent
\* to /signin after logger and auth.
C7_Witness ==
    /\ pipeReq.path = <<"/", "m", "a", "n", "a", "g", "e", "/", "b">>
    /\ pipeUser = User(FALSE)
    /\ pipeTrace = <<"logger", "auth">>
    /\ pipeResp = HTTPFound(SigninPath)
    /\ pipePc = "out"

\* ------------------------------------------------------------------------
\* Model: what is saved and updated is what is found
\* ------------------------------------------------------------------------

\* The last call was find() of the key of the instance the caller holds.
FoundOwn ==
    /\ inst.some
    /\ last.op = "find"
    /\ last.pk = getValue(inst.d, cls.primary_key)

\* The attributes a class declares.
Declared == DOMAIN cls.mappings

\* What a field omitted at construction is to hold once saved.
HoldsDefault(key, value) ==
    LET default == cls.mappings[key].default
    IN CASE default.how = "none" -> value = None
         [] default.how = "value" -> value = default.v
         [] default.how = "callable" -> value \in Elems(GenPool)

\* The instance find() returned has, attribute by attribute, the values of
\* the instance the caller holds.
FoundEqualsOwn ==
    /\ last.found.some
    /\ DOMAIN last.found.d = Declared
    /\ \A key \in Declared : last.found.d[key] = getValue(inst.d, key)

\* C8: for every model class, an instance constructed with a key that is
\* not stored yet and saved is found again under its key with the values
\* it was given, and with the declared default in every field that was
\* given none.
C8_SaveFindRoundTrip ==
    (instState = "saved" /\ FoundOwn) =>
        /\ FoundEqualsOwn
        /\ \A key \in Declared :
              IF key \in DOMAIN instKw
              THEN last.found.d[key] = instKw[key]
              ELSE HoldsDefault(key, last.found.d[key])

\* An instance of the class with an explicit column name, constructed with
\* a name only, was saved next to another row and found again.
C8_Witness ==
    /\ instState = "saved"
    /\ FoundOwn
    /\ last.found.some
    /\ DOMAIN instKw = {"name"}
    /\ cls.mappings["name"].name # None
    /\ Len(table) = 2
    /\ table[2]["id"] = last.pk

\* C9 as stated: once a field other than the key of a stored instance has
\* been assigned and update() has been called, find() of its key returns
\* an instance with the new value, whatever column name the field declares.
C9_AsStated ==
    (instState = "updated" /\ FoundOwn) => FoundEqualsOwn

\* A stored instance of the class whose name field declares the column
\* c_name was assigned a new name; update() raised, and find() of its key
\* returned the name stored before.
C9_Witness ==
    /\ instState = "updated"
    /\ FoundOwn
    /\ last.found.some
    /\ cls.mappings["name"].name = ColumnOf("name")
    /\ getValue(inst.d, "name") = "b"
    /\ last.found.d["name"] # "b"

\* ------------------------------------------------------------------------
\* findAll: limits
\* ------------------------------------------------------------------------

\* The arguments findAll was called with, and whether there are as many
\* as its where clause has placeholders.
GivenArgs == IF last.args = PyNone THEN <<>> ELSE last.args.items
WellFormed == Len(GivenArgs) = IF last.where = PyNone THEN 0 ELSE 1

\* The stored rows the call's where clause selects.
Selected ==
    {i \in 1..Len(table) :
        last.where = WhereEq("name") => table[i]["name"] = GivenArgs[1].s}

\* Positions of the table from the greatest key down.
RECURSIVE KeysDown(_)
KeysDown(S) ==
    IF S = {} THEN <<>>
    ELSE LET top == CHOOSE i \in S :
                       \A j \in S : KeyRank(table[j]["id"]) <= KeyRank(table[i]["id"])
         IN <<top>> \o KeysDown(S \ {top})

\* Positions of the table in storage order.
RECURSIVE Stored(_)
Stored(S) ==
    IF S = {} THEN <<>>
    ELSE LET first == CHOOSE i \in S : \A j \in S : i <= j
         IN <<first>> \o Stored(S \ {first})

\* The whole ordered result of the call, were it made without a limit.
WholeResult ==
    LET at == IF last.orderBy = PyNone THEN Stored(Selected) ELSE KeysDown(Selected)
    IN [i \in 1..Len(at) |->
            Instance([key \in Declared |-> table[at[i]][key]])]

\* At most count elements of a sequence from offset on.
Page(seq, offset, count) ==
    LET rest == IF Len(seq) > offset THEN Len(seq) - offset ELSE 0
    IN [i \in 1..(IF count < rest THEN count ELSE rest) |-> seq[offset + i]]

IsPair(limit) ==
    /\ limit.t = "tuple"
    /\ Len(limit.items) = 2
IsNumberPair(limit) ==
    /\ IsPair(limit)
    /\ \A i \in 1..2 : limit.items[i].t = "int" /\ limit.items[i].n >= 0

\* C10: findAll(limit=n) with an integer n returns at most n rows, the
\* first n of the ordered result; findAll(limit=(o, c)) returns the page of
\* at most c rows from offset o of the same ordered result; with a limit
\* that is neither an integer nor a two-element tuple findAll raises
\* ValueError and sends no query.
C10_LimitPages ==
    (last.op = "findAll" /\ last.limit # PyNone) =>
        /\ IsInt(last.limit) =>
              /\ last.ok => Len(last.found) <= last.limit.n
              /\ (WellFormed /\ last.limit.n >= 0) =>
                    last.ok /\ last.found = Page(WholeResult, 0, last.limit.n)
        /\ IsNumberPair(last.limit) =>
              /\ last.ok => Len(last.found) <= last.limit.items[2].n
              /\ WellFormed =>
                    /\ last.ok
                    /\ last.found = Page(WholeResult, last.limit.items[1].n,
                                         last.limit.items[2].n)
        /\ (~IsInt(last.limit) /\ ~IsPair(last.limit)) =>
              /\ ~last.ok
              /\ last.err = "ValueError"
              /\ ~last.queried

\* Of three rows stored with the keys k1, k3, k2 in this order, the page of
\* one row at offset 1 by descending key was asked for, and k2 came back.
C10_Witness ==
    /\ last.op = "findAll"
    /\ last.limit = PyTuple(<<PyInt(1), PyInt(1)>>)
    /\ last.orderBy = PyStr("id desc")
    /\ last.where = PyNone
    /\ Len(table) = 3
    /\ table[1]["id"] = "k1"
    /\ table[2]["id"] = "k3"
    /\ last.ok
    /\ Len(last.found) = 1
    /\ last.found[1].d["id"] = "k2"

\* ------------------------------------------------------------------------
\* RequestHandler: what the function raises
\* ------------------------------------------------------------------------

\* The function raised an APIError / another exception.
RaisedAPIError == pipeFn.how = "api_error"
RaisedOther == pipeFn.how = "raised"

\* C11: an APIError raised by the function does not leave the
\* RequestHandler: a mapping with exactly the keys error, data and message
\* of the error is returned, and response_factory answers it as JSON; any
\* other exception of the function leaves the RequestHandler, and the
\* pipeline, as it is.
C11_APIErrorPayload ==
    /\ RaisedAPIError =>
          /\ pipePc \in {"coerce", "out"}
          /\ pipeRet.t = "dict"
          /\ DOMAIN pipeRet.d = {"error", "data", "message"}
          /\ pipeRet.d["error"] = pipeFn.e.error
          /\ pipeRet.d["data"] = pipeFn.e.data
          /\ pipeRet.d["message"] = pipeFn.e.message
          /\ pipeResp.cls # "exception"
          /\ pipePc = "out" =>
                /\ pipeCase = "json"
                /\ pipeResp = WebResponse(200, Body("json", pipeRet),
                                          "application/json;charset=utf-8")
    /\ RaisedOther =>
          /\ pipePc = "out"
          /\ pipeRet = NoReturn
          /\ pipeCase = "none"
          /\ pipeResp = Propagates("handler")

\* The function raised an APIError with data, and the JSON response left
\* the pipeline.
C11_Witness ==
    /\ RaisedAPIError
    /\ pipeFn.e.data = PyStr(<<"i", "d">>)
    /\ pipePc = "out"
    /\ pipeCase = "json"

\* ------------------------------------------------------------------------
\* The middlewares: order of the stages
\* ------------------------------------------------------------------------

\* middlewares=[logger_factory, auth_factory, data_factory,
\* response_factory], then the RequestHandler, then the second half of
\* response_factory.
StageOrder == <<"logger", "auth", "data", "response", "handler", "coerce">>

IsPrefix(short, long) ==
    /\ Len(short) <= Len(long)
    /\ \A i \in 1..Len(short) : short[i] = long[i]

FunctionCalled == pipeFn.how # "none"
FunctionReturned == pipeFn.how = "returned"

\* C12: the stages are entered in the order logging, auth-binding,
\* body-parsing, response-coercion, request-handler adapter, none twice;
\* a request that reached the function went through all five, and what
\* the function returned is coerced once, after which and not before a
\* response leaves the pipeline.
C12_StageOrder ==
    /\ IsPrefix(pipeTrace, StageOrder)
    /\ FunctionCalled => IsPrefix(SubSeq(StageOrder, 1, 5), pipeTrace)
    /\ (FunctionReturned /\ pipePc # "out") =>
          /\ pipeResp = NoResponse
          /\ pipeCase = "none"
          /\ Len(pipeTrace) = 5
    /\ (FunctionReturned /\ pipePc = "out") =>
          /\ pipeTrace = StageOrder
          /\ pipeCase = Coerce(pipeFn.r, pipeUser).case
          /\ pipeResp = Coerce(pipeFn.r, pipeUser).resp

\* A POST under /manage/ by an administrator reached the function, whose
\* return value left the pipeline coerced.
C12_Witness ==
    /\ FunctionReturned
    /\ pipePc = "out"
    /\ pipeReq.method = "POST"
    /\ StartsWith(pipeReq.path, ManagePrefix)
    /\ pipeTrace = StageOrder
    /\ pipeCase = "template"

\* ------------------------------------------------------------------------
\* Model: defaults are resolved when read, and kept
\* ------------------------------------------------------------------------

\* The fields whose value-or-default the call that gave the outcome l read.
KeysRead(l) ==
    CASE l.op = "read" -> {l.key}
      [] l.op = "save" -> Declared
      [] OTHER -> {}

HasDefault(key) == cls.mappings[key].default.how # "none"
HasProducer(key) == cls.mappings[key].default.how = "callable"

\* A field that was not given / that holds no value other than None.
NotGiven(key) == key \notin DOMAIN inst.d
HoldsNone(key) == getValue(inst.d, key) = None

\* A call on the instance the caller holds: a default is resolved only
\* for a field that is read while Absent, with one call of its producer,
\* and is then held by the instance; every other field keeps its value and
\* calls no producer.
LazyCachedStep(Absent(_)) ==
    /\ (inst.some /\ inst'.some /\ last'.op \in {"get", "read", "save"}) =>
          /\ \A key \in Declared :
                IF key \in KeysRead(last') /\ Absent(key) /\ HasDefault(key)
                THEN HoldsDefault(key, getValue(inst'.d, key))
                ELSE getValue(inst'.d, key) = getValue(inst.d, key)
          /\ gen' - gen =
                Cardinality({key \in KeysRead(last') : Absent(key) /\ HasProducer(key)})
          /\ last'.op = "read" =>
                /\ last'.value = getValue(inst'.d, last'.key)
                /\ last'.invoked <=> (Absent(last'.key) /\ HasProducer(last'.key))
    /\ last'.op \notin {"read", "save"} => gen' = gen

\* C13 as stated: a default is resolved only when value-or-default is
\* read of a field that was not given, then stored, so that later reads
\* and save() call no producer again; a field that was given a value never
\* has its producer called.
C13_AsStated == [][LazyCachedStep(NotGiven)]_vars

\* C13: the same with a field counting as absent when it holds None,
\* whether it was left out or given as None.
C13_LazyCached == [][LazyCachedStep(HoldsNone)]_vars

\* The key of an instance constructed without one was read again after an
\* earlier read had resolved it: no producer was called, and the value is
\* the one produced before.
C13_Witness ==
    /\ inst.some
    /\ instState = "new"
    /\ "id" \notin DOMAIN instKw
    /\ last.op = "read"
    /\ last.key = "id"
    /\ ~last.invoked
    /\ last.value = Produce(0)
    /\ gen = 1

\* ------------------------------------------------------------------------
\* findAll: the caller's list of arguments
\* ------------------------------------------------------------------------

\* The last call was findAll with the caller's list and a limit.
CalledWithHeldList ==
    /\ last.op = "findAll"
    /\ "sent" \in DOMAIN last
    /\ last.limit # PyNone

\* C14 as stated: after findAll calls that pass the same list of arguments
\* with a limit, the list holds what the caller put in it, and a call that
\* queries sends as many parameters as its SQL has placeholders.
C14_AsStated ==
    CalledWithHeldList =>
        /\ callerArgs = callerPut
        /\ last.queried => Len(last.sent) = Placeholders(last.sql)

\* The caller's list ['a'] was passed twice with limit=1: it has grown by
\* the limit of the first call, and the second call sent three parameters
\* for two placeholders, which the driver refused.
C14_Witness ==
    /\ CalledWithHeldList
    /\ callerPut = <<PyStr("a")>>
    /\ last.where = WhereEq("name")
    /\ last.limit = PyInt(1)
    /\ last.args = PyList(<<PyStr("a"), PyInt(1)>>)
    /\ last.sent = <<PyStr("a"), PyInt(1), PyInt(1)>>
    /\ Placeholders(last.sql) = 2
    /\ ~last.ok
    /\ last.err = "TypeError"

====
